---- MODULE Spec2Model ----
(***************************************************************************)
(* Car auction system: the Store (PostgreSQL through Prisma, default       *)
(* isolation READ COMMITTED), BidService.placeBid, AuctionService          *)
(* (createAuction, endAuction, checkExpiredAuctions, getAuction,           *)
(* getActiveAuctions) and the outcome messages published to RabbitMQ.      *)
(*                                                                         *)
(* Every await of an async method is a point where other handlers run, so  *)
(* each method is split into one action per database statement.  A         *)
(* statement inside prisma.$transaction sees the rows committed when it    *)
(* runs; an UPDATE holds the row lock until its transaction ends.          *)
(***************************************************************************)
EXTENDS Integers, Sequences, FiniteSets, TLC

\* ---------------------------------------------------------------- bounds
MaxAmount == 3      \* bid amounts are 0..MaxAmount (0 is an invalid amount)
MaxTime == 2        \* the clock runs over 0..MaxTime
MaxBids == 2        \* placeBid is called until MaxBids bid rows were inserted
RateStep == 10      \* seconds that pass in one step of the rate gate's clock
MaxCount == 12      \* requests reach the rate gate while its counter is below this

Users == {"u1", "u2"}
AuctionOrder == <<"a1">>            \* the ids createAuction hands out, in order
AuctionIds == {AuctionOrder[i] : i \in 1 .. Len(AuctionOrder)}
BidProcs == {"b1", "b2"}            \* in-flight placeBid messages
SweepProc == "sweep"                \* the @Cron task / onModuleInit check
ReqProc == "req"                    \* an HTTP request that may end auctions
EndProcs == {SweepProc, ReqProc}
NoUser == "null"
NoAuction == "none"
NoProc == "free"
NoBid == 0                          \* no bid row has id 0
Amounts == 0 .. MaxAmount
StartingBids == {1, 2}
StartTimes == {0}                   \* the startTime given to createAuction
EndTimes == {1}                     \* the endTime given to createAuction

VARIABLES
  now,            \* new Date()
  auctions,       \* table auctions: id -> row (status "NONE": no such row)
  bids,           \* table bids: the set of committed rows
  bidSeq,         \* number of bid rows inserted so far (committed or not)
  rowLock,        \* auction id -> process holding the row lock of that row
  bp,             \* per placeBid call: position and locals
  ep,             \* per endAuction caller: position and locals
  notifications,  \* queue 'notifications'
  auditLog,       \* queue 'audit-logs'
  mqUp,           \* RabbitmqService.channel is set
  bidProcessing,  \* queue 'bid-processing': the bid ids of the bid events published
  highest,        \* the Redis keys auction:<id>:highest: auction id -> id of the cached bid
  rateKey,        \* the Redis key rate_limit:bid:<userId>:<auctionId>
  rl,             \* per placeBid message at the rate gate: position and locals
  gateMsg,        \* per placeBid message at the rate gate: its data.amount
  admitted,       \* ages of the requests that passed the gate in the last window
  connectedUsers, \* AuctionGateway.connectedUsers: the users with a socket
  auctionRooms,   \* AuctionGateway.auctionRooms: a Map, auction id -> users in the room
  joining,        \* user -> the auction of their joinAuction handler awaiting client.join
  consumed,       \* number of messages of queue 'notifications' consumed and acked
  observed,       \* user -> the types of the userNotifications addressed to them that arrived
  received,       \* user -> the userNotification messages that arrived at their socket
  auctionEnded,   \* the auctions whose auctionEnded event was emitted to the room
  sock,           \* the sockets of the namespace /auction
  svc             \* RabbitmqService and RedisService: where onModuleInit stands

storeVars == <<now, auctions, bids, bidSeq, rowLock, bp, ep, notifications, auditLog, mqUp, highest, bidProcessing>>
rateVars == <<rateKey, rl, admitted, gateMsg>>
hubVars == <<connectedUsers, auctionRooms, joining, consumed, observed, received, auctionEnded>>

vars == <<now, auctions, bids, bidSeq, rowLock, bp, ep, notifications, auditLog, mqUp, highest,
          bidProcessing, rateVars, hubVars, sock, svc>>

\* ------------------------------------------------------------ helpers
NoRow == [status |-> "NONE", startingBid |-> 0, currentHighestBid |-> 0,
          startTime |-> 0, endTime |-> 0, winnerId |-> NoUser]

IdleBid == [pc |-> "idle", auctionId |-> NoAuction, userId |-> NoUser,
            amount |-> 0, snapHighest |-> 0, bidId |-> 0, beforeEnd |-> FALSE]

IdleEnd == [pc |-> "idle", todo |-> <<>>, winnerId |-> NoUser, participants |-> <<>>]

\* checkRateLimit(rateLimitKey, 5, 30) in handlePlaceBid
RateLimit == 5
RateWindow == 30
RateProcs == {"m1", "m2"}           \* in-flight placeBid messages at the rate gate
NoTtl == -1                         \* the key has no expiry
NoKey == [count |-> 0, ttl |-> NoTtl]
IdleRate == [pc |-> "idle", current |-> 0]
NoMsg == [t |-> "none", v |-> 0]    \* the amount of a message whose content is left open

\* new Map(): no auction has a room entry
NoRooms == [a \in {} |-> {}]

Max(x, y) == IF x >= y THEN x ELSE y

BidsOf(a) == {b \in bids : b.auctionId = a}

\* all orders in which a query without a total order may return a set of rows
RECURSIVE Orders(_)
Orders(S) == IF S = {} THEN {<<>>}
             ELSE UNION {{<<x>> \o t : t \in Orders(S \ {x})} : x \in S}

\* a socket: not yet connected (free), connected (open) or disconnected
\* (closed); client.user; whether error was emitted to it; the auctions whose
\* room it has joined; the auction of a joinAuction handler waiting in
\* client.join
Sockets == {"s1", "s2"}
NoSock == [st |-> "free", user |-> NoUser, err |-> FALSE, joined |-> {}, joining |-> NoAuction]

\* a service before onModuleInit: attempt is the parameter of
\* connectWithRetry, tries counts the connection attempts made, calls the
\* publish calls made, last tells how the last publish call ended
Services == {"rabbitmq", "redis"}
NoService == [pc |-> "init", attempt |-> 0, tries |-> 0, calls |-> 0, last |-> "none"]

Init ==
  /\ now = 0
  /\ auctions = [a \in AuctionIds |-> NoRow]
  /\ bids = {}
  /\ bidSeq = 0
  /\ rowLock = [a \in AuctionIds |-> NoProc]
  /\ bp = [p \in BidProcs |-> IdleBid]
  /\ ep = [e \in EndProcs |-> IdleEnd]
  /\ notifications = <<>>
  /\ auditLog = <<>>
  /\ mqUp \in BOOLEAN
  /\ highest = [a \in AuctionIds |-> NoBid]
  /\ bidProcessing = <<>>
  /\ rateKey = NoKey
  /\ rl = [p \in RateProcs |-> IdleRate]
  /\ admitted = <<>>
  /\ gateMsg = [p \in RateProcs |-> NoMsg]
  /\ connectedUsers = {}
  /\ auctionRooms = NoRooms
  /\ joining = [u \in Users |-> NoAuction]
  /\ consumed = 0
  /\ observed = [u \in Users |-> {}]
  /\ received = [u \in Users |-> <<>>]
  /\ auctionEnded = {}
  /\ sock = [s \in Sockets |-> NoSock]
  /\ svc = [s \in Services |-> NoService]

\* the clock
Tick ==
  /\ now < MaxTime
  /\ now' = now + 1
  /\ UNCHANGED <<auctions, bids, bidSeq, rowLock, bp, ep, notifications, auditLog, mqUp, highest, bidProcessing, rateVars, hubVars, sock, svc>>

\* RabbitmqService.publishAuditLog / publishNotification: without a channel
\* the message is dropped and the call returns normally
publishAuditLog(log, msg) == IF mqUp THEN Append(log, msg) ELSE log
publishNotification(q, msgs) == IF mqUp THEN q \o msgs ELSE q

\* the id of the next row of table auctions (ids are opaque and fresh)
NextAuctionId ==
  LET free == {i \in 1 .. Len(AuctionOrder) : auctions[AuctionOrder[i]].status = "NONE"}
  IN IF free = {} THEN NoAuction
     ELSE AuctionOrder[CHOOSE i \in free : \A j \in free : i <= j]

\* createAuction without line 229: currentHighestBid keeps the column default 0
createAuction_columnDefault(startTime, startingBid, endTime) ==
  LET a == NextAuctionId IN
  /\ a # NoAuction
  /\ auctions' = [auctions EXCEPT ![a] =
        [status |-> "ACTIVE", startingBid |-> startingBid,
         currentHighestBid |-> 0, startTime |-> startTime, endTime |-> endTime,
         winnerId |-> NoUser]]
  /\ auditLog' = publishAuditLog(auditLog,
        [action |-> "AUCTION_CREATED", auctionId |-> a, winnerId |-> NoUser])
  /\ UNCHANGED <<now, bids, bidSeq, rowLock, bp, ep, notifications, mqUp, highest, bidProcessing, rateVars, hubVars, sock, svc>>

\* AuctionService.createAuction: currentHighestBid := startingBid, status
\* ACTIVE by the column default, then the AUCTION_CREATED audit message
createAuction(startTime, startingBid, endTime) ==
  LET a == NextAuctionId IN
  /\ a # NoAuction
  /\ auctions' = [auctions EXCEPT ![a] =
        [status |-> "ACTIVE", startingBid |-> startingBid,
         currentHighestBid |-> startingBid, startTime |-> startTime,
         endTime |-> endTime,
         winnerId |-> NoUser]]
  /\ auditLog' = publishAuditLog(auditLog,
        [action |-> "AUCTION_CREATED", auctionId |-> a, winnerId |-> NoUser])
  /\ UNCHANGED <<now, bids, bidSeq, rowLock, bp, ep, notifications, mqUp, highest, bidProcessing, rateVars, hubVars, sock, svc>>

\* ------------------------------------------------- BidService.placeBid
\* a placeBid call that has not yet inserted its bid row
BeforeInsert(p) == bp[p].pc \in {"tx_read", "tx_find", "tx_create"}

\* placeBid throws (or the gateway refuses the amount): the handler answers
\* bidError (gateway lines 171-176, 203-209) and is over
reject(p) == bp' = [bp EXCEPT ![p] = IdleBid]

\* placeBid lines 19-27: the amount check before the transaction starts (an
\* amount <= 0 stands for every amount the check refuses)
placeBidStart(p, a, u, amount) ==
  /\ bp[p].pc = "idle"
  /\ bidSeq + Cardinality({q \in BidProcs : BeforeInsert(q)}) < MaxBids
  /\ IF amount <= 0
       THEN reject(p)
       ELSE bp' = [bp EXCEPT ![p] = [IdleBid EXCEPT !.pc = "tx_read", !.auctionId = a,
                     !.userId = u, !.amount = amount]]
  /\ UNCHANGED <<now, auctions, bids, bidSeq, rowLock, ep, notifications, auditLog, mqUp, highest, bidProcessing, rateVars, hubVars, sock, svc>>

\* the check of the row read by tx.auction.findUnique (lines 36-53)
BidAllowed(row, amount, time) ==
  /\ row.status = "ACTIVE"
  /\ amount > Max(row.startingBid, row.currentHighestBid)
  /\ ~ (time > row.endTime)

\* lines 32-53: tx.auction.findUnique (a plain SELECT, no row lock) and the
\* checks on the row it returned
txRead(p) ==
  LET row == auctions[bp[p].auctionId] IN
  /\ bp[p].pc = "tx_read"
  /\ IF BidAllowed(row, bp[p].amount, now)
       THEN bp' = [bp EXCEPT ![p] = [@ EXCEPT !.pc = "tx_find",
                                        !.snapHighest = row.currentHighestBid]]
       ELSE reject(p)
  /\ UNCHANGED <<now, auctions, bids, bidSeq, rowLock, ep, notifications, auditLog, mqUp, highest, bidProcessing, rateVars, hubVars, sock, svc>>

\* lines 56-66: tx.bid.findFirst on the committed rows, with the amount of the
\* auction row read before
txFindLast(p) ==
  /\ bp[p].pc = "tx_find"
  /\ IF \E b \in BidsOf(bp[p].auctionId) :
          b.userId = bp[p].userId /\ b.amount = bp[p].snapHighest
       THEN reject(p)
       ELSE bp' = [bp EXCEPT ![p] = [@ EXCEPT !.pc = "tx_create", !.snapHighest = 0]]
  /\ UNCHANGED <<now, auctions, bids, bidSeq, rowLock, ep, notifications, auditLog, mqUp, highest, bidProcessing, rateVars, hubVars, sock, svc>>

\* lines 69-84: tx.bid.create; the row gets its id and its timestamp (the
\* moment of the insert, so timestamps order the rows as their inserts) and is
\* invisible to others until commit
txCreate(p) ==
  /\ bp[p].pc = "tx_create"
  /\ bidSeq' = bidSeq + 1
  /\ bp' = [bp EXCEPT ![p] = [@ EXCEPT !.pc = "tx_update", !.bidId = bidSeq + 1]]
  /\ UNCHANGED <<now, auctions, bids, rowLock, ep, notifications, auditLog, mqUp, highest, bidProcessing, rateVars, hubVars, sock, svc>>

\* lines 87-90: tx.auction.update takes the row lock of the auction row; it
\* waits while another transaction holds it
txUpdate(p) ==
  /\ bp[p].pc = "tx_update"
  /\ rowLock[bp[p].auctionId] = NoProc
  /\ rowLock' = [rowLock EXCEPT ![bp[p].auctionId] = p]
  /\ bp' = [bp EXCEPT ![p] = [@ EXCEPT !.pc = "tx_publish"]]
  /\ UNCHANGED <<now, auctions, bids, bidSeq, ep, notifications, auditLog, mqUp, highest, bidProcessing, rateVars, hubVars, sock, svc>>

\* the value tx.auction.update writes to currentHighestBid (line 89)
NewHighest(row, amount) == amount

\* the rollback of the transaction of p: its row lock is released, its
\* inserted row is discarded
rollback(p) ==
  rowLock' = [a \in AuctionIds |-> IF rowLock[a] = p THEN NoProc ELSE rowLock[a]]

\* the downstream calls of lines 103-124 in their order; a call that rejects
\* ends the callback, so the calls before it have had their effect
DownstreamCalls == <<"cacheHighestBid", "addToBidHistory", "publishBidUpdate">>

\* rabbitmq.publishBidEvent (lines 107-114; rabbitmq.service.ts 78-91): the
\* event goes to queue 'bid-processing'; without a channel it is dropped
publishBidEvent(q, bidId) == IF mqUp THEN Append(q, bidId) ELSE q

\* redis.cacheHighestBid (line 103): SETEX auction:<id>:highest
cacheHighestBid(cache, a, bidId) == [cache EXCEPT ![a] = bidId]

\* lines 92-124, still inside the transaction callback: redis.cacheHighestBid,
\* redis.addToBidHistory, rabbitmq.publishBidEvent and redis.publishBidUpdate,
\* which publishes the bid on the channel auction:<id>:bids.  publishBidEvent
\* catches its errors; the RedisService methods do not, so a failing Redis
\* command (ok = FALSE, in any one of the three calls) throws out of the
\* callback and the transaction is rolled back
txDownstream(p, ok) ==
  LET a == bp[p].auctionId IN
  /\ bp[p].pc = "tx_publish"
  /\ IF ok
       THEN /\ bp' = [bp EXCEPT ![p] = [@ EXCEPT !.pc = "tx_commit"]]
            /\ highest' = cacheHighestBid(highest, a, bp[p].bidId)
            /\ bidProcessing' = publishBidEvent(bidProcessing, bp[p].bidId)
            /\ UNCHANGED rowLock
       ELSE /\ reject(p)
            /\ rollback(p)
            /\ \E failed \in 1 .. Len(DownstreamCalls) :
                 /\ highest' = IF failed > 1 THEN cacheHighestBid(highest, a, bp[p].bidId)
                                ELSE highest
                 /\ bidProcessing' = IF failed > 2
                                       THEN publishBidEvent(bidProcessing, bp[p].bidId)
                                       ELSE bidProcessing
  /\ UNCHANGED <<now, auctions, bids, bidSeq, ep, notifications, auditLog, mqUp, rateVars, hubVars, sock, svc>>

\* line 128: the transaction callback returns and the transaction commits:
\* the bid row and the new currentHighestBid become visible and the lock is
\* released; placeBid returns the bid to the gateway (beforeEnd: the commit
\* came before the auction was ENDED)
txCommit(p) ==
  LET a == bp[p].auctionId IN
  /\ bp[p].pc = "tx_commit"
  /\ bids' = bids \cup {[id |-> bp[p].bidId, auctionId |-> a,
                            userId |-> bp[p].userId, amount |-> bp[p].amount,
                            timestamp |-> bp[p].bidId]}
  /\ auctions' = [auctions EXCEPT ![a].currentHighestBid = NewHighest(@, bp[p].amount)]
  /\ rowLock' = [rowLock EXCEPT ![a] = NoProc]
  /\ bp' = [bp EXCEPT ![p] = [IdleBid EXCEPT !.pc = "gw_emit", !.auctionId = a,
                                              !.bidId = bp[p].bidId,
                                              !.beforeEnd = auctions[a].status # "ENDED"]]
  /\ UNCHANGED <<now, bidSeq, ep, notifications, auditLog, mqUp, highest, bidProcessing, rateVars, hubVars, sock, svc>>

\* txAbort if placeBid ran its statements outside a transaction: the row that
\* tx.bid.create inserted stays in the table when a later statement fails
txAbort_noTransaction(p) ==
  /\ bp[p].pc \in {"tx_read", "tx_find", "tx_create", "tx_update", "tx_publish", "tx_commit"}
  /\ rollback(p)
  /\ reject(p)
  /\ bids' = IF bp[p].pc \in {"tx_update", "tx_publish", "tx_commit"}
               THEN bids \cup {[id |-> bp[p].bidId, auctionId |-> bp[p].auctionId,
                                 userId |-> bp[p].userId, amount |-> bp[p].amount,
                                 timestamp |-> bp[p].bidId]}
               ELSE bids
  /\ UNCHANGED <<now, auctions, bidSeq, ep, notifications, auditLog, mqUp, highest, bidProcessing, rateVars, hubVars, sock, svc>>

\* an error inside the transaction callback (a Store error, the transaction
\* timeout): Prisma rolls back, placeBid throws and the gateway answers
\* bidError (lines 203-209 of the gateway)
txAbort(p) ==
  /\ bp[p].pc \in {"tx_read", "tx_find", "tx_create", "tx_update", "tx_publish", "tx_commit"}
  /\ rollback(p)
  /\ reject(p)
  /\ UNCHANGED <<now, auctions, bids, bidSeq, ep, notifications, auditLog, mqUp, highest, bidProcessing, rateVars, hubVars, sock, svc>>

\* gateway lines 187-201: after placeBid returned, newBid is emitted to the
\* room auction-<id> and bidPlaced to the sender
gwEmit(p) ==
  /\ bp[p].pc = "gw_emit"
  /\ bp' = [bp EXCEPT ![p] = IdleBid]
  /\ UNCHANGED <<now, auctions, bids, bidSeq, rowLock, ep, notifications, auditLog, mqUp, highest, bidProcessing, rateVars, hubVars, sock, svc>>

\* ------------------------------------------- AuctionService.endAuction
\* auction.bids with orderBy amount desc: every order of the committed bids of
\* a in which amounts do not increase (rows of equal amount come in any order)
BidsByAmountDesc(a) ==
  {s \in Orders(BidsOf(a)) :
      \A i \in 1 .. Len(s) - 1 : s[i].amount >= s[i + 1].amount}

\* [...new Set(auction.bids.map(bid => bid.userId))]: first occurrences, in order
RECURSIVE uniqueParticipants(_)
uniqueParticipants(s) ==
  IF s = <<>> THEN <<>>
  ELSE LET front == uniqueParticipants(SubSeq(s, 1, Len(s) - 1))
           u == s[Len(s)].userId
       IN IF \E i \in 1 .. Len(front) : front[i] = u THEN front ELSE Append(front, u)

\* the caller goes on to the next auction of its list, or is done
advance(e) ==
  LET rest == Tail(ep[e].todo) IN
  IF rest = <<>> THEN IdleEnd ELSE [IdleEnd EXCEPT !.pc = "end_read", !.todo = rest]

\* the early return of endAuction (line 318)
AlreadyEnded(row) == row.status = "ENDED"

\* lines 304-324: findUnique with the bids; 'Auction not found' is thrown to
\* the caller, an ENDED auction is returned unchanged
endRead(e) ==
  LET a == Head(ep[e].todo)
      row == auctions[a] IN
  /\ ep[e].pc = "end_read"
  /\ IF row.status = "NONE" THEN ep' = [ep EXCEPT ![e] = IdleEnd]
     ELSE IF AlreadyEnded(row) THEN ep' = [ep EXCEPT ![e] = advance(e)]
     ELSE \E s \in BidsByAmountDesc(a) :
            ep' = [ep EXCEPT ![e] = [@ EXCEPT !.pc = "end_update",
                     !.winnerId = IF s = <<>> THEN NoUser ELSE s[1].userId,
                     !.participants = uniqueParticipants(s)]]
  /\ UNCHANGED <<now, auctions, bids, bidSeq, rowLock, bp, notifications, auditLog, mqUp, highest, bidProcessing, rateVars, hubVars, sock, svc>>

\* lines 326-347: prisma.auction.update, an autocommitted UPDATE that waits
\* for the row lock
endUpdate(e) ==
  LET a == Head(ep[e].todo) IN
  /\ ep[e].pc = "end_update"
  /\ rowLock[a] = NoProc
  /\ auctions' = [auctions EXCEPT ![a].status = "ENDED", ![a].winnerId = ep[e].winnerId]
  /\ ep' = [ep EXCEPT ![e] = [@ EXCEPT !.pc = "end_publish"]]
  /\ UNCHANGED <<now, bids, bidSeq, rowLock, bp, notifications, auditLog, mqUp, highest, bidProcessing, rateVars, hubVars, sock, svc>>

\* lines 350-394: the notifications of one END
OutcomeMessages(a, winner, participants) ==
  IF winner # NoUser
    THEN <<[type |-> "AUCTION_WON", userId |-> winner, auctionId |-> a]>> \o
         [i \in 1 .. Len(SelectSeq(participants, LAMBDA u : u # winner)) |->
            [type |-> "AUCTION_LOST",
             userId |-> SelectSeq(participants, LAMBDA u : u # winner)[i],
             auctionId |-> a]]
    ELSE <<[type |-> "AUCTION_ENDED_NO_BIDS", userId |-> NoUser, auctionId |-> a]>>

\* lines 350-406: the notifications, then the AUCTION_ENDED audit message
endPublish(e) ==
  LET a == Head(ep[e].todo) IN
  /\ ep[e].pc = "end_publish"
  /\ notifications' = publishNotification(notifications,
        OutcomeMessages(a, ep[e].winnerId, ep[e].participants))
  /\ auditLog' = publishAuditLog(auditLog,
        [action |-> "AUCTION_ENDED", auctionId |-> a, winnerId |-> ep[e].winnerId])
  /\ ep' = [ep EXCEPT ![e] = advance(e)]
  /\ UNCHANGED <<now, auctions, bids, bidSeq, rowLock, bp, mqUp, highest, bidProcessing, rateVars, hubVars, sock, svc>>

\* a Store error in findUnique or update: endAuction throws, and the caller's
\* loop over its list is left (checkExpiredAuctions catches outside the loop)
endFail(e) ==
  /\ ep[e].pc \in {"end_read", "end_update"}
  /\ ep' = [ep EXCEPT ![e] = IdleEnd]
  /\ UNCHANGED <<now, auctions, bids, bidSeq, rowLock, bp, notifications, auditLog, mqUp, highest, bidProcessing, rateVars, hubVars, sock, svc>>

\* a caller starts on a list of auction ids
startEnding(e, list) ==
  /\ ep[e].pc = "idle"
  /\ ep' = [ep EXCEPT ![e] = IF list = <<>> THEN IdleEnd
                             ELSE [IdleEnd EXCEPT !.pc = "end_read", !.todo = list]]
  /\ UNCHANGED <<now, auctions, bids, bidSeq, rowLock, bp, notifications, auditLog, mqUp, highest, bidProcessing, rateVars, hubVars, sock, svc>>

\* the where clause with lt in place of lte
Expired_lt(row, time) == row.status = "ACTIVE" /\ row.endTime < time

\* the where clause of checkExpiredAuctions (lines 188-194)
Expired(row, time) == row.status = "ACTIVE" /\ row.endTime <= time

\* AuctionService.checkExpiredAuctions, by @Cron and by onModuleInit
checkExpiredAuctions ==
  \E list \in Orders({a \in DOMAIN auctions : Expired(auctions[a], now)}) :
     startEnding(SweepProc, list)

\* the on-demand test of getAuction and getActiveAuctions (lines 266, 285)
Overdue(row, time) == row.status = "ACTIVE" /\ time > row.endTime

\* AuctionService.getAuction
getAuction(a) ==
  startEnding(ReqProc, IF Overdue(auctions[a], now) THEN <<a>> ELSE <<>>)

\* AuctionService.getActiveAuctions (rows by startTime, which any order of the
\* overdue rows can be)
getActiveAuctions ==
  \E list \in Orders({a \in AuctionIds : Overdue(auctions[a], now)}) :
     startEnding(ReqProc, list)

\* AuctionController.endAuction: POST /auctions/:id/end
endAuctionRequest(a) == startEnding(ReqProc, <<a>>)

Next ==
  \/ Tick
  \/ \E st \in StartTimes, sb \in StartingBids, t \in EndTimes : createAuction(st, sb, t)
  \/ \E p \in BidProcs, a \in AuctionIds, u \in Users, amount \in Amounts :
        placeBidStart(p, a, u, amount)
  \/ \E p \in BidProcs : txRead(p)
  \/ \E p \in BidProcs : txFindLast(p)
  \/ \E p \in BidProcs : txCreate(p)
  \/ \E p \in BidProcs : txUpdate(p)
  \/ \E p \in BidProcs, ok \in BOOLEAN : txDownstream(p, ok)
  \/ \E p \in BidProcs : txCommit(p)
  \/ \E p \in BidProcs : txAbort(p)
  \/ \E p \in BidProcs : gwEmit(p)
  \/ checkExpiredAuctions
  \/ \E a \in AuctionIds : getAuction(a)
  \/ getActiveAuctions
  \/ \E a \in AuctionIds : endAuctionRequest(a)
  \/ \E e \in EndProcs : endRead(e)
  \/ \E e \in EndProcs : endUpdate(e)
  \/ \E e \in EndProcs : endPublish(e)
  \/ \E e \in EndProcs : endFail(e)

Spec == Init /\ [][Next]_vars

\* the scheduling the liveness claims assume: the cron task keeps firing, the
\* Store answers the sweep's statements in the end, and an open transaction
\* commits (or is rolled back) rather than holding its row lock for ever
Fairness ==
  /\ WF_vars(checkExpiredAuctions)
  /\ SF_vars(endRead(SweepProc))
  /\ SF_vars(endUpdate(SweepProc))
  /\ WF_vars(endPublish(SweepProc))
  /\ \A p \in BidProcs : WF_vars((\E ok \in BOOLEAN : txDownstream(p, ok)) \/ txCommit(p))

LiveSpec == Init /\ [][Next]_vars /\ Fairness

\* ------------------------------------ the rate gate of handlePlaceBid
\* rateGate with current < limit as the test of line 70
rateGate_lt(p, current) ==
  IF current < RateLimit
    THEN /\ rl' = [rl EXCEPT ![p] = [IdleRate EXCEPT !.pc = "admitted"]]
         /\ admitted' = Append(admitted, 0)
    ELSE /\ rl' = [rl EXCEPT ![p] = [IdleRate EXCEPT !.pc = "rate_limited"]]
         /\ UNCHANGED admitted

\* gateway lines 155-163, once checkRateLimit has returned current <= limit:
\* false answers bidError RATE_LIMIT_EXCEEDED, true lets the request go on to
\* the amount check and BidService.placeBid
rateGate(p, current) ==
  IF current <= RateLimit
    THEN /\ rl' = [rl EXCEPT ![p] = [IdleRate EXCEPT !.pc = "admitted"]]
         /\ admitted' = Append(admitted, 0)
    ELSE /\ rl' = [rl EXCEPT ![p] = [IdleRate EXCEPT !.pc = "rate_limited"]]
         /\ UNCHANGED admitted

\* a Redis command rejects: checkRateLimit has no catch and is awaited outside
\* the try block of handlePlaceBid, so the handler throws without an answer
rateThrow(p) ==
  /\ rl' = [rl EXCEPT ![p] = [IdleRate EXCEPT !.pc = "threw"]]
  /\ UNCHANGED admitted

\* lines 65-70 of checkRateLimit: the penalty test, then the return
afterExpire(p, current) ==
  IF current > RateLimit * 2
    THEN /\ rl' = [rl EXCEPT ![p] = [pc |-> "penalty", current |-> current]]
         /\ UNCHANGED admitted
    ELSE rateGate(p, current)

\* line 59: INCR creates the key with value 1 and no expiry, or adds 1
rateIncr(p, ok) ==
  LET current == rateKey.count + 1 IN
  /\ rl[p].pc = "idle"
  /\ rateKey.count < MaxCount
  /\ IF ok
       THEN /\ rateKey' = [rateKey EXCEPT !.count = current]
            /\ IF current = 1
                 THEN /\ rl' = [rl EXCEPT ![p] = [pc |-> "expire", current |-> current]]
                      /\ UNCHANGED admitted
                 ELSE afterExpire(p, current)
       ELSE rateThrow(p) /\ UNCHANGED rateKey
  /\ UNCHANGED <<gateMsg, storeVars, hubVars, sock, svc>>

\* EXPIRE key seconds: sets the time to live of an existing key
expire(key, seconds) == IF key.count = 0 THEN key ELSE [key EXCEPT !.ttl = seconds]

\* lines 61-63: the first request of a counter sets its expiry to the window
rateExpire(p, ok) ==
  /\ rl[p].pc = "expire"
  /\ IF ok
       THEN /\ rateKey' = expire(rateKey, RateWindow)
            /\ afterExpire(p, rl[p].current)
       ELSE rateThrow(p) /\ UNCHANGED rateKey
  /\ UNCHANGED <<gateMsg, storeVars, hubVars, sock, svc>>

\* lines 66-68: above twice the limit the expiry is set to five windows
ratePenalty(p, ok) ==
  /\ rl[p].pc = "penalty"
  /\ IF ok
       THEN /\ rateKey' = expire(rateKey, RateWindow * 5)
            /\ rateGate(p, rl[p].current)
       ELSE rateThrow(p) /\ UNCHANGED rateKey
  /\ UNCHANGED <<gateMsg, storeVars, hubVars, sock, svc>>

\* the handler of the message is over: an admitted request was answered by
\* the validator, a refused one by bidError, a thrown one not at all
rateDone(p) ==
  /\ rl[p].pc \in {"admitted", "rate_limited", "threw"}
  /\ rl' = [rl EXCEPT ![p] = IdleRate]
  /\ gateMsg' = [gateMsg EXCEPT ![p] = NoMsg]
  /\ UNCHANGED <<rateKey, admitted, storeVars, hubVars, sock, svc>>

\* the admitted requests that are less than a window old after a step of time
Aged(ages) ==
  LET young == SelectSeq(ages, LAMBDA t : t + RateStep < RateWindow)
  IN [i \in 1 .. Len(young) |-> young[i] + RateStep]

\* time passes: Redis deletes a key whose time to live has run out
rateTick ==
  /\ rateKey' = IF rateKey.ttl = NoTtl THEN rateKey
                ELSE IF rateKey.ttl - RateStep <= 0 THEN NoKey
                ELSE [rateKey EXCEPT !.ttl = @ - RateStep]
  /\ admitted' = Aged(admitted)
  /\ UNCHANGED <<rl, gateMsg, storeVars, hubVars, sock, svc>>

RateNext ==
  \/ rateTick
  \/ \E p \in RateProcs, ok \in BOOLEAN : rateIncr(p, ok)
  \/ \E p \in RateProcs, ok \in BOOLEAN : rateExpire(p, ok)
  \/ \E p \in RateProcs, ok \in BOOLEAN : ratePenalty(p, ok)
  \/ \E p \in RateProcs : rateDone(p)

RateSpec == Init /\ [][RateNext]_vars

\* ------------------------------- AuctionGateway and NotificationService
\* handleDisconnect lines 84-92: the user leaves connectedUsers and the Set of
\* every room; a room whose Set is empty then is deleted from the Map
leave(u) ==
  LET left == [a \in DOMAIN auctionRooms |-> auctionRooms[a] \ {u}] IN
  /\ connectedUsers' = connectedUsers \ {u}
  /\ auctionRooms' = [a \in {x \in DOMAIN left : left[x] # {}} |-> left[a]]

\* handleConnection with a valid token: the socket is entered in
\* connectedUsers, then the session is stored in Redis; when that call rejects
\* (ok = FALSE) the catch block disconnects the socket, and handleDisconnect
\* removes the user again
handleConnection(u, ok) ==
  /\ IF ok
       THEN connectedUsers' = connectedUsers \cup {u} /\ UNCHANGED auctionRooms
       ELSE leave(u)
  /\ UNCHANGED <<joining, consumed, observed, received, auctionEnded, storeVars, rateVars, sock, svc>>

\* handleDisconnect
handleDisconnect(u) ==
  /\ u \in connectedUsers
  /\ leave(u)
  /\ UNCHANGED <<joining, consumed, observed, received, auctionEnded, storeVars, rateVars, sock, svc>>

\* handleJoinAuction lines 103-111: the message of an authenticated socket
\* passes the client.user test and the handler awaits client.join
handleJoinAuction(u, a) ==
  /\ u \in connectedUsers
  /\ joining[u] = NoAuction
  /\ joining' = [joining EXCEPT ![u] = a]
  /\ UNCHANGED <<connectedUsers, auctionRooms, consumed, observed, received, auctionEnded, storeVars, rateVars, sock, svc>>

\* auctionRooms.get(auctionId).add(userId), after the Set was created if the
\* Map had none (lines 114-117)
track(rooms, a, u) ==
  [x \in DOMAIN rooms \cup {a} |->
     IF x = a THEN (IF a \in DOMAIN rooms THEN rooms[a] ELSE {}) \cup {u} ELSE rooms[x]]

\* handleJoinAuction lines 113-140: client.join has returned; the handler
\* enters the user in the room (it does not look at the socket again), then
\* reads and emits the snapshot
joinTrack(u) ==
  /\ joining[u] # NoAuction
  /\ auctionRooms' = track(auctionRooms, joining[u], u)
  /\ joining' = [joining EXCEPT ![u] = NoAuction]
  /\ UNCHANGED <<connectedUsers, consumed, observed, received, auctionEnded, storeVars, rateVars, sock, svc>>

\* handleAuctionEnd: on the message 'auctionEnd' of any connected socket the
\* gateway emits auctionEnded to the room; nothing else in the server emits it
handleAuctionEnd(a) ==
  /\ connectedUsers # {}
  /\ auctionEnded' = auctionEnded \cup {a}
  /\ UNCHANGED <<connectedUsers, auctionRooms, joining, consumed, observed, received, storeVars, rateVars, sock, svc>>

\* the types NotificationService sends as userNotification
UserNotifications == {"AUCTION_WON", "AUCTION_LOST"}

\* auctionGateway.server.emit('userNotification', ...): the event goes to
\* every socket connected to the namespace
serverEmit(rec, msg) ==
  [u \in Users |-> IF u \in connectedUsers THEN Append(rec[u], msg) ELSE rec[u]]

\* consumeNotifications with NotificationService.handleNotification: the next
\* message of the queue is handed to the callback, which emits
\* userNotification to the sockets connected at that moment
\* (AUCTION_ENDED_NO_BIDS goes to the room as auctionNotification); the
\* message is then acked.  Without a channel at start-up there is no consumer
handleNotification ==
  LET msg == notifications[consumed + 1] IN
  /\ mqUp
  /\ consumed < Len(notifications)
  /\ observed' = IF msg.type \in UserNotifications /\ msg.userId \in connectedUsers
                   THEN [observed EXCEPT ![msg.userId] = @ \cup {msg.type}]
                   ELSE observed
  /\ received' = IF msg.type \in UserNotifications THEN serverEmit(received, msg)
                   ELSE received
  /\ consumed' = consumed + 1
  /\ UNCHANGED <<connectedUsers, auctionRooms, joining, auctionEnded, storeVars, rateVars, sock, svc>>

\* the server starts on a database that holds one running auction whose
\* endTime has come, with no bid or with one bid
HubAuction == AuctionOrder[1]
HubBidder == "u1"
StoredBids ==
  {{}, {[id |-> 1, auctionId |-> HubAuction, userId |-> HubBidder, amount |-> 2, timestamp |-> 1]}}

HubInit ==
  /\ now = 1
  /\ bids \in StoredBids
  /\ auctions = [a \in AuctionIds |->
        IF a = HubAuction
          THEN [status |-> "ACTIVE", startingBid |-> 1,
                currentHighestBid |-> IF bids = {} THEN 1 ELSE 2,
                startTime |-> 0, endTime |-> 1, winnerId |-> NoUser]
          ELSE NoRow]
  /\ bidSeq = Cardinality(bids)
  /\ rowLock = [a \in AuctionIds |-> NoProc]
  /\ bp = [p \in BidProcs |-> IdleBid]
  /\ ep = [e \in EndProcs |-> IdleEnd]
  /\ notifications = <<>>
  /\ auditLog = <<>>
  /\ mqUp \in BOOLEAN
  /\ highest = [a \in AuctionIds |-> NoBid]
  /\ bidProcessing = <<>>
  /\ rateKey = NoKey
  /\ rl = [p \in RateProcs |-> IdleRate]
  /\ admitted = <<>>
  /\ gateMsg = [p \in RateProcs |-> NoMsg]
  /\ connectedUsers = {}
  /\ auctionRooms = NoRooms
  /\ joining = [u \in Users |-> NoAuction]
  /\ consumed = 0
  /\ observed = [u \in Users |-> {}]
  /\ received = [u \in Users |-> <<>>]
  /\ auctionEnded = {}
  /\ sock = [s \in Sockets |-> NoSock]
  /\ svc = [s \in Services |-> NoService]

HubBidProc == "b1"                  \* one placeBid message at a time

HubNext ==
  \/ \E a \in AuctionIds, u \in Users, amount \in Amounts :
        placeBidStart(HubBidProc, a, u, amount)
  \/ txRead(HubBidProc)
  \/ txFindLast(HubBidProc)
  \/ txCreate(HubBidProc)
  \/ txUpdate(HubBidProc)
  \/ \E ok \in BOOLEAN : txDownstream(HubBidProc, ok)
  \/ txCommit(HubBidProc)
  \/ txAbort(HubBidProc)
  \/ gwEmit(HubBidProc)
  \/ checkExpiredAuctions
  \/ endRead(SweepProc)
  \/ endUpdate(SweepProc)
  \/ endPublish(SweepProc)
  \/ endFail(SweepProc)
  \/ \E u \in Users, ok \in BOOLEAN : handleConnection(u, ok)
  \/ \E u \in Users : handleDisconnect(u)
  \/ \E u \in Users, a \in AuctionIds : handleJoinAuction(u, a)
  \/ \E u \in Users : joinTrack(u)
  \/ \E a \in AuctionIds : handleAuctionEnd(a)
  \/ handleNotification

HubSpec == HubInit /\ [][HubNext]_vars

\* the consumer of queue 'notifications' keeps being scheduled, next to the
\* sweep and the Store
HubFairness ==
  /\ WF_vars(checkExpiredAuctions)
  /\ SF_vars(endRead(SweepProc))
  /\ SF_vars(endUpdate(SweepProc))
  /\ WF_vars(endPublish(SweepProc))
  /\ WF_vars((\E ok \in BOOLEAN : txDownstream(HubBidProc, ok)) \/ txCommit(HubBidProc))
  /\ WF_vars(handleNotification)

HubLive == HubInit /\ [][HubNext]_vars /\ HubFairness

\* the outcome messages from endAuction to the sockets: the sweep and the
\* requests that end auctions publish, the consumer hands on what is queued
NotifyNext ==
  \/ checkExpiredAuctions
  \/ \E a \in AuctionIds : getAuction(a)
  \/ \E a \in AuctionIds : endAuctionRequest(a)
  \/ \E e \in EndProcs : endRead(e)
  \/ \E e \in EndProcs : endUpdate(e)
  \/ \E e \in EndProcs : endPublish(e)
  \/ \E e \in EndProcs : endFail(e)
  \/ \E u \in Users, ok \in BOOLEAN : handleConnection(u, ok)
  \/ \E u \in Users : handleDisconnect(u)
  \/ handleNotification

NotifySpec == HubInit /\ [][NotifyNext]_vars

\* ------------------------------------- the amount of a placeBid message
\* JavaScript numbers next to the amounts 0 .. MaxAmount: -1, and three
\* values that are no finite number
PosInf == MaxAmount + 1             \* Infinity: above every finite amount
NegInf == 0 - PosInf                \* -Infinity
NaN == MaxAmount + 2                \* NaN (compared only through JsLe)
JsNumbers == (-1 .. MaxAmount) \cup {PosInf, NegInf, NaN}

\* x <= y of JavaScript: false when an operand is NaN
JsLe(x, y) == x # NaN /\ y # NaN /\ x <= y

\* the strings a client sends as data.amount, with the value parseFloat gives:
\* the longest numeric prefix, NaN when there is none
AmountStrings == {"2", "3", "-1", "0", "3abc", "abc", "", "NaN", "Infinity", "-Infinity", "1e999"}
parseFloat(str) ==
  CASE str = "2" -> 2
    [] str = "3" -> 3
    [] str = "-1" -> -1
    [] str = "0" -> 0
    [] str = "3abc" -> 3
    [] str = "Infinity" -> PosInf
    [] str = "1e999" -> PosInf
    [] str = "-Infinity" -> NegInf
    [] OTHER -> NaN

\* data.amount as it arrives: a number or a string
WireAmounts ==
  [t : {"number"}, v : JsNumbers] \cup [t : {"string"}, v : AmountStrings]

\* typeof amount === 'string' ? parseFloat(amount) : amount
coerce(w) == IF w.t = "string" THEN parseFloat(w.v) ELSE w.v

\* the test of gateway line 168 and of placeBid line 25
refused(amount) == amount = NaN \/ JsLe(amount, 0)

\* handlePlaceBid lines 165-182 on an admitted message: the amount is coerced
\* and tested; a refused amount is answered bidError INVALID_AMOUNT, any other
\* is handed to BidService.placeBid, which coerces and tests it once more
handlePlaceBidAmount(p, a, u, w) ==
  IF refused(coerce(w))
    THEN /\ bp[p].pc = "idle"
         /\ reject(p)
         /\ UNCHANGED <<now, auctions, bids, bidSeq, rowLock, ep, notifications, auditLog, mqUp, highest, bidProcessing, rateVars, hubVars, sock, svc>>
    ELSE placeBidStart(p, a, u, coerce(w))

AmountNext ==
  \/ \E p \in BidProcs, a \in AuctionIds, u \in Users, w \in WireAmounts :
        handlePlaceBidAmount(p, a, u, w)
  \/ \E p \in BidProcs : txRead(p)
  \/ \E p \in BidProcs : txFindLast(p)
  \/ \E p \in BidProcs : txCreate(p)
  \/ \E p \in BidProcs : txUpdate(p)
  \/ \E p \in BidProcs, ok \in BOOLEAN : txDownstream(p, ok)
  \/ \E p \in BidProcs : txCommit(p)
  \/ \E p \in BidProcs : txAbort(p)
  \/ \E p \in BidProcs : gwEmit(p)

\* placeBid messages with every kind of amount, on the database of HubInit
AmountSpec == HubInit /\ [][AmountNext]_vars

\* ------------------------- handlePlaceBid from the message to the validator
SubmitProc == "m1"                  \* one placeBid message at a time

\* handlePlaceBid lines 143-154: a placeBid message of an authenticated socket
\* arrives with its data.amount
receivePlaceBid(p, w) ==
  /\ rl[p].pc = "idle"
  /\ gateMsg[p] = NoMsg
  /\ gateMsg' = [gateMsg EXCEPT ![p] = w]
  /\ UNCHANGED <<rateKey, rl, admitted, storeVars, hubVars, sock, svc>>

\* line 155: the handler of the message that arrived calls checkRateLimit
checkRateLimit(p, ok) == gateMsg[p] # NoMsg /\ rateIncr(p, ok)

\* the handler in its order: the message, the rate check of line 155, then
\* (in rateDone) the answer: bidError RATE_LIMIT_EXCEEDED, or the try block
\* with the amount test of lines 165-174 and BidService.placeBid
SubmitNext ==
  \/ rateTick
  \/ \E w \in WireAmounts : receivePlaceBid(SubmitProc, w)
  \/ \E ok \in BOOLEAN : checkRateLimit(SubmitProc, ok)
  \/ \E ok \in BOOLEAN : rateExpire(SubmitProc, ok)
  \/ \E ok \in BOOLEAN : ratePenalty(SubmitProc, ok)
  \/ rateDone(SubmitProc)

SubmitSpec == Init /\ [][SubmitNext]_vars

\* ----------------------------------------- the gateway, socket by socket
\* the handshake carries the token of a user, no token, or a token that
\* jwtService.verify refuses
Credentials == Users \cup {"missing", "invalid"}

\* handleConnection lines 42-80, with the client.disconnect() of line 49 left
\* out
socketConnection_noDisconnect(s, cred, ok) ==
  /\ sock[s].st = "free"
  /\ IF cred \in Users
       THEN IF ok
              THEN /\ sock' = [sock EXCEPT ![s] = [NoSock EXCEPT !.st = "open", !.user = cred]]
                   /\ connectedUsers' = connectedUsers \cup {cred}
                   /\ UNCHANGED auctionRooms
              ELSE /\ sock' = [sock EXCEPT ![s] = [NoSock EXCEPT !.st = "closed", !.user = cred,
                                                                 !.err = TRUE]]
                   /\ leave(cred)
       ELSE /\ sock' = [sock EXCEPT ![s] = [NoSock EXCEPT !.st = IF cred = "missing" THEN "open" ELSE "closed",
                                                          !.err = TRUE]]
            /\ UNCHANGED <<connectedUsers, auctionRooms>>
  /\ UNCHANGED <<joining, consumed, observed, received, auctionEnded, storeVars, rateVars, svc>>

\* handleConnection lines 42-80 for one socket.  Without a token (line 47) and
\* with a token verify refuses (catch, line 75) the socket gets error and is
\* disconnected; client.user was never set, so handleDisconnect does nothing.
\* With a valid token client.user is set and the socket is entered under the
\* user's id; when setUserSession then rejects (ok = FALSE) the catch block
\* disconnects the socket and handleDisconnect removes the user's entries
socketConnection(s, cred, ok) ==
  /\ sock[s].st = "free"
  /\ IF cred \in Users
       THEN IF ok
              THEN /\ sock' = [sock EXCEPT ![s] = [NoSock EXCEPT !.st = "open", !.user = cred]]
                   /\ connectedUsers' = connectedUsers \cup {cred}
                   /\ UNCHANGED auctionRooms
              ELSE /\ sock' = [sock EXCEPT ![s] = [NoSock EXCEPT !.st = "closed", !.user = cred,
                                                                 !.err = TRUE]]
                   /\ leave(cred)
       ELSE /\ sock' = [sock EXCEPT ![s] = [NoSock EXCEPT !.st = "closed", !.err = TRUE]]
            /\ UNCHANGED <<connectedUsers, auctionRooms>>
  /\ UNCHANGED <<joining, consumed, observed, received, auctionEnded, storeVars, rateVars, svc>>

\* handleDisconnect lines 82-96 for one socket: with client.user set, the
\* user's id is deleted from connectedUsers and from every room
socketDisconnect(s) ==
  /\ sock[s].st = "open"
  /\ sock' = [sock EXCEPT ![s].st = "closed", ![s].joined = {}]
  /\ IF sock[s].user # NoUser
       THEN leave(sock[s].user)
       ELSE UNCHANGED <<connectedUsers, auctionRooms>>
  /\ UNCHANGED <<joining, consumed, observed, received, auctionEnded, storeVars, rateVars, svc>>

\* handleJoinAuction lines 98-111 for one socket: a socket without
\* client.user gets error and nothing else happens; otherwise the handler
\* awaits client.join
socketJoinAuction(s, a) ==
  /\ sock[s].st = "open"
  /\ sock[s].joining = NoAuction
  /\ IF sock[s].user = NoUser
       THEN sock' = [sock EXCEPT ![s].err = TRUE]
       ELSE sock' = [sock EXCEPT ![s].joining = a]
  /\ UNCHANGED <<hubVars, storeVars, rateVars, svc>>

\* handleJoinAuction lines 113-141 for one socket: client.join has returned
\* and client.user.id is added to the Set of the room
socketJoinTrack(s) ==
  /\ sock[s].joining # NoAuction
  /\ auctionRooms' = track(auctionRooms, sock[s].joining, sock[s].user)
  /\ sock' = [sock EXCEPT ![s].joining = NoAuction,
                          ![s].joined = IF sock[s].st = "open"
                                          THEN sock[s].joined \cup {sock[s].joining}
                                          ELSE sock[s].joined]
  /\ UNCHANGED <<connectedUsers, joining, consumed, observed, received, auctionEnded, storeVars, rateVars, svc>>

\* handlePlaceBid lines 143-160 for one socket: a socket without client.user
\* gets error; otherwise the bid of client.user.id is placed
socketPlaceBid(s, a, amount) ==
  /\ sock[s].st = "open"
  /\ IF sock[s].user = NoUser
       THEN /\ sock' = [sock EXCEPT ![s].err = TRUE]
            /\ UNCHANGED <<hubVars, storeVars, rateVars, svc>>
       ELSE placeBidStart(HubBidProc, a, sock[s].user, amount)

\* handleAuctionEnd lines 230-241 for one socket: the handler does not look at
\* client.user; it emits auctionEnded to the room
socketAuctionEnd(s, a) ==
  /\ sock[s].st = "open"
  /\ auctionEnded' = auctionEnded \cup {a}
  /\ UNCHANGED <<connectedUsers, auctionRooms, joining, consumed, observed, received, sock, storeVars, rateVars, svc>>

SocketNext ==
  \/ \E s \in Sockets, cred \in Credentials, ok \in BOOLEAN : socketConnection(s, cred, ok)
  \/ \E s \in Sockets : socketDisconnect(s)
  \/ \E s \in Sockets, a \in AuctionIds : socketJoinAuction(s, a)
  \/ \E s \in Sockets : socketJoinTrack(s)
  \/ \E s \in Sockets, a \in AuctionIds, amount \in Amounts : socketPlaceBid(s, a, amount)
  \/ \E s \in Sockets, a \in AuctionIds : socketAuctionEnd(s, a)
  \/ txRead(HubBidProc)
  \/ txFindLast(HubBidProc)
  \/ txCreate(HubBidProc)
  \/ txUpdate(HubBidProc)
  \/ \E ok \in BOOLEAN : txDownstream(HubBidProc, ok)
  \/ txCommit(HubBidProc)
  \/ txAbort(HubBidProc)
  \/ gwEmit(HubBidProc)

\* sockets connecting with every kind of credential to a running auction
SocketSpec == HubInit /\ [][SocketNext]_vars

\* ------------------------------------------- a sweep over two auctions
\* two ACTIVE auctions without bids, created before the clock's start
SweepIds == {"a1", "a2"}

SweepInit ==
  /\ now = 0
  /\ \E t \in [SweepIds -> 1 .. MaxTime] :
        auctions = [a \in SweepIds |->
           [status |-> "ACTIVE", startingBid |-> 1, currentHighestBid |-> 1,
            startTime |-> 0, endTime |-> t[a], winnerId |-> NoUser]]
  /\ bids = {}
  /\ bidSeq = 0
  /\ rowLock = [a \in SweepIds |-> NoProc]
  /\ bp = [p \in BidProcs |-> IdleBid]
  /\ ep = [e \in EndProcs |-> IdleEnd]
  /\ notifications = <<>>
  /\ auditLog = <<>>
  /\ mqUp \in BOOLEAN
  /\ highest = [a \in SweepIds |-> NoBid]
  /\ bidProcessing = <<>>
  /\ rateKey = NoKey
  /\ rl = [p \in RateProcs |-> IdleRate]
  /\ admitted = <<>>
  /\ gateMsg = [p \in RateProcs |-> NoMsg]
  /\ connectedUsers = {}
  /\ auctionRooms = NoRooms
  /\ joining = [u \in Users |-> NoAuction]
  /\ consumed = 0
  /\ observed = [u \in Users |-> {}]
  /\ received = [u \in Users |-> <<>>]
  /\ auctionEnded = {}
  /\ sock = [s \in Sockets |-> NoSock]
  /\ svc = [s \in Services |-> NoService]

SweepNext ==
  \/ Tick
  \/ checkExpiredAuctions
  \/ endRead(SweepProc)
  \/ endUpdate(SweepProc)
  \/ endPublish(SweepProc)
  \/ endFail(SweepProc)

\* the @Cron sweep alone, with two auctions to end
SweepSpec == SweepInit /\ [][SweepNext]_vars

\* ------------------------------------- onModuleInit and connectWithRetry
\* private maxRetries = 5
maxRetries == 5

\* publish calls of one run
MaxPublish == 2

\* onModuleInit: await this.connectWithRetry(), attempt = 1
onModuleInit(s) ==
  /\ svc[s].pc = "init"
  /\ svc' = [svc EXCEPT ![s].pc = "connecting", ![s].attempt = 1]
  /\ UNCHANGED <<storeVars, rateVars, hubVars, sock>>

\* connectWithRetry retrying while attempt <= maxRetries
connectWithRetry_lte(s, ok) ==
  /\ svc[s].pc = "connecting"
  /\ svc' = [svc EXCEPT ![s].tries = @ + 1,
                        ![s].pc = IF ok THEN "done"
                                  ELSE IF svc[s].attempt <= maxRetries THEN "delay" ELSE "done"]
  /\ mqUp' = IF s = "rabbitmq" THEN ok ELSE mqUp
  /\ UNCHANGED <<now, auctions, bids, bidSeq, rowLock, bp, ep, notifications, auditLog, highest, bidProcessing, rateVars, hubVars, sock>>

\* connectWithRetry, one attempt: the try block (connect, createChannel and
\* setupQueues of RabbitMQ; the three clients and the subscribers of Redis)
\* runs through (ok) or throws; the catch block waits and retries while
\* attempt < maxRetries, and otherwise logs and returns.  The channel is there
\* exactly when the try block of RabbitMQ ran through
connectWithRetry(s, ok) ==
  /\ svc[s].pc = "connecting"
  /\ svc' = [svc EXCEPT ![s].tries = @ + 1,
                        ![s].pc = IF ok THEN "done"
                                  ELSE IF svc[s].attempt < maxRetries THEN "delay" ELSE "done"]
  /\ mqUp' = IF s = "rabbitmq" THEN ok ELSE mqUp
  /\ UNCHANGED <<now, auctions, bids, bidSeq, rowLock, bp, ep, notifications, auditLog, highest, bidProcessing, rateVars, hubVars, sock>>

\* await this.delay(retryDelay); return this.connectWithRetry(attempt + 1)
delay(s) ==
  /\ svc[s].pc = "delay"
  /\ svc' = [svc EXCEPT ![s].pc = "connecting", ![s].attempt = @ + 1]
  /\ UNCHANGED <<storeVars, rateVars, hubVars, sock>>

\* the connection to RabbitMQ is lost after start-up: the handlers of 'error'
\* and 'close' only log, the channel stays unusable
connectionClosed ==
  /\ svc["rabbitmq"].pc = "done"
  /\ mqUp
  /\ mqUp' = FALSE
  /\ UNCHANGED <<now, auctions, bids, bidSeq, rowLock, bp, ep, notifications, auditLog, highest, bidProcessing, rateVars, hubVars, sock, svc>>

PublishCalls == {"publishBidEvent", "publishNotification", "publishAuditLog"}

\* a publish call after start-up (rabbitmq.service.ts lines 78-121): without a
\* channel it returns at once, an error of sendToQueue is caught and logged
publish(call) ==
  /\ svc["rabbitmq"].pc = "done"
  /\ svc["rabbitmq"].calls < MaxPublish
  /\ svc' = [svc EXCEPT !["rabbitmq"].calls = @ + 1, !["rabbitmq"].last = "returned"]
  /\ bidProcessing' = IF call = "publishBidEvent"
                        THEN publishBidEvent(bidProcessing, 1) ELSE bidProcessing
  /\ notifications' = IF call = "publishNotification"
        THEN publishNotification(notifications,
               <<[type |-> "AUCTION_ENDED_NO_BIDS", userId |-> NoUser, auctionId |-> HubAuction]>>)
        ELSE notifications
  /\ auditLog' = IF call = "publishAuditLog"
        THEN publishAuditLog(auditLog,
               [action |-> "AUCTION_ENDED", auctionId |-> HubAuction, winnerId |-> NoUser])
        ELSE auditLog
  /\ UNCHANGED <<now, auctions, bids, bidSeq, rowLock, bp, ep, mqUp, highest, rateVars, hubVars, sock>>

ConnectNext ==
  \/ \E s \in Services : onModuleInit(s)
  \/ \E s \in Services, ok \in BOOLEAN : connectWithRetry(s, ok)
  \/ \E s \in Services : delay(s)
  \/ connectionClosed
  \/ \E call \in PublishCalls : publish(call)

\* before onModuleInit there is no channel
ConnectInit == Init /\ ~ mqUp

\* the start of the two services and the publish calls after it
ConnectSpec == ConnectInit /\ [][ConnectNext]_vars

\* every connection attempt settles and every setTimeout fires
ConnectLive ==
  /\ ConnectSpec
  /\ \A s \in Services :
        /\ WF_vars(onModuleInit(s))
        /\ WF_vars(\E ok \in BOOLEAN : connectWithRetry(s, ok))
        /\ WF_vars(delay(s))

\* ------------------------------------------ AuctionController.createAuction
\* the body of POST /auctions: startTime and endTime (a time, or absent) and
\* startingBid (a number or a string); values parseFloat turns into a number
\* that is not finite are left out
NoTime == 0 - 1
BodyTimes == {NoTime} \cup (0 .. MaxTime)
BodyBids ==
  [t : {"number"}, v : -1 .. 2] \cup [t : {"string"}, v : {"2", "-1", "0", "", "3abc"}]

\* Date.now() + 24 * 60 * 60 * 1000: a day is longer than the clock runs
Day == MaxTime + 1

\* !auctionData.startingBid (line 72): 0, NaN and the empty string are falsy
falsy(w) == IF w.t = "string" THEN w.v = "" ELSE w.v = 0 \/ w.v = NaN

\* AuctionController.createAuction (lines 68-85): the body is refused when
\* startingBid is falsy (the handler throws, nothing is inserted); otherwise
\* the times get their defaults, startingBid goes through parseFloat and
\* AuctionService.createAuction inserts the row
createAuctionRequest(st, et, sb) ==
  /\ ~ falsy(sb)
  /\ createAuction(IF st = NoTime THEN now ELSE st,
                   coerce(sb),
                   IF et = NoTime THEN now + Day ELSE et)

CreateNext ==
  \/ Tick
  \/ \E st \in BodyTimes, et \in BodyTimes, sb \in BodyBids : createAuctionRequest(st, et, sb)

\* requests to create auctions with every kind of body
CreateSpec == Init /\ [][CreateNext]_vars

\* ------------------------------------------------------------ the claims
Exists(a) == auctions[a].status # "NONE"

MaxOf(S) == CHOOSE x \in S : \A y \in S : y <= x

AmountsOf(a) == {b.amount : b \in BidsOf(a)}

AuditCount(a, act) ==
  Cardinality({i \in 1 .. Len(auditLog) :
                 auditLog[i].action = act /\ auditLog[i].auctionId = a})

\* C1: the accepted bids of an auction, ordered by timestamp, have strictly
\* increasing amounts; in particular no two accepted bids of one auction carry
\* the same amount (of two concurrent bids of one amount only one is accepted).
C1_MonotonicPrice ==
  \A a \in AuctionIds : \A b1, b2 \in BidsOf(a) :
     /\ b1.timestamp < b2.timestamp => b1.amount < b2.amount
     /\ b1 # b2 => b1.amount # b2.amount

\* C2: in every step, the currentHighestBid of an auction does not decrease.
C2_HighestNeverDecreases ==
  [][\A a \in AuctionIds :
        auctions'[a].currentHighestBid >= auctions[a].currentHighestBid]_vars

\* C3: currentHighestBid is the maximum amount among the committed bids of the
\* auction, and startingBid when it has none.
C3_HighestIsMaxBid ==
  \A a \in AuctionIds : Exists(a) =>
     auctions[a].currentHighestBid =
        IF BidsOf(a) = {} THEN auctions[a].startingBid ELSE MaxOf(AmountsOf(a))

\* C4: createAuction inserts the auction with currentHighestBid = startingBid
\* and status ACTIVE, and currentHighestBid >= startingBid in every state
\* afterwards.
C4_HighestAtLeastStarting ==
  /\ [](\A a \in AuctionIds :
          Exists(a) => auctions[a].currentHighestBid >= auctions[a].startingBid)
  /\ [][\A a \in AuctionIds : (~ Exists(a) /\ Exists(a)') =>
          /\ auctions'[a].status = "ACTIVE"
          /\ auctions'[a].currentHighestBid = auctions'[a].startingBid]_vars

\* C4's case: an auction that was created and has since received a bid
C4_Witness ==
  \E a \in AuctionIds :
     /\ Exists(a) /\ BidsOf(a) # {}
     /\ auctions[a].currentHighestBid > auctions[a].startingBid

\* C5: once the status of an auction is ENDED, no bid row is added for it and
\* its currentHighestBid does not change.
C5_NoBidAfterEnd ==
  [][\A a \in AuctionIds : auctions[a].status = "ENDED" =>
        /\ BidsOf(a)' = BidsOf(a)
        /\ auctions'[a].currentHighestBid = auctions[a].currentHighestBid]_vars

\* C6: the winnerId of an ENDED auction with bids is the userId of its unique
\* bid of maximum amount.
C6_WinnerIsHighestBidder ==
  \A a \in AuctionIds : (auctions[a].status = "ENDED" /\ BidsOf(a) # {}) =>
     \E b \in BidsOf(a) :
        /\ \A c \in BidsOf(a) : c # b => c.amount < b.amount
        /\ auctions[a].winnerId = b.userId

\* C7: the winnerId of an ENDED auction is non-null exactly if the auction has
\* a committed bid.
C7_WinnerIffBids ==
  \A a \in AuctionIds : auctions[a].status = "ENDED" =>
     (auctions[a].winnerId # NoUser <=> BidsOf(a) # {})

\* C8: however many endAuction calls run on an auction, at most one set of
\* outcome messages is published for it: one AUCTION_ENDED audit message and
\* one AUCTION_WON or AUCTION_ENDED_NO_BIDS notification.
C8_OneOutcomeSet ==
  \A a \in AuctionIds :
     /\ AuditCount(a, "AUCTION_ENDED") <= 1
     /\ Cardinality({i \in 1 .. Len(notifications) :
           /\ notifications[i].auctionId = a
           /\ notifications[i].type \in {"AUCTION_WON", "AUCTION_ENDED_NO_BIDS"}}) <= 1

\* C9: ENDED and CANCELLED are terminal: no step changes the status or the
\* winnerId of an auction that is ENDED or CANCELLED.
C9_TerminalStatus ==
  [][\A a \in AuctionIds : auctions[a].status \in {"ENDED", "CANCELLED"} =>
        /\ auctions'[a].status = auctions[a].status
        /\ auctions'[a].winnerId = auctions[a].winnerId]_vars

\* C10: an ACTIVE auction whose endTime has passed is ENDED in the end, when
\* the sweep keeps being scheduled and the Store answers.
C10_ExpiredEventuallyEnded ==
  \A a \in AuctionIds :
     (auctions[a].status = "ACTIVE" /\ auctions[a].endTime <= now)
        ~> (auctions[a].status = "ENDED")

\* C10's case: the sweep has just ended an auction
C10_Witness ==
  /\ ep[SweepProc].pc = "end_publish"
  /\ auctions[Head(ep[SweepProc].todo)].status = "ENDED"
  /\ auctions[Head(ep[SweepProc].todo)].endTime <= now

\* C11: for one (userId, auctionId), at most RateLimit (5) placeBid requests
\* pass the rate gate within any interval of RateWindow (30) seconds.
C11_AtMostLimitPerWindow == Len(admitted) <= RateLimit

\* C12: when a newBid event is sent, on the pub/sub channel of the auction
\* (publishBidUpdate) or to the local room (gateway emit), the bid it carries
\* is a committed row of table bids.
C12_NoGhostBids ==
  [][\A p \in BidProcs :
        (txDownstream(p, TRUE) \/ gwEmit(p)) => \E b \in bids : b.id = bp[p].bidId]_vars

\* a placeBid handler ends with bidError: it ends without having reached the
\* emit of newBid and bidPlaced
BidErrorStep(p) == bp[p].pc \notin {"idle", "gw_emit"} /\ bp'[p].pc = "idle"

\* C13: a step in which a placeBid request is answered with bidError leaves
\* the Store as it was: no bid row is added, and the auction rows
\* (currentHighestBid, status, winnerId) keep their values.
C13_BidErrorLeavesStore ==
  [][\A p \in BidProcs : BidErrorStep(p) => UNCHANGED <<auctions, bids>>]_vars

\* C13's case: a request was answered with bidError after it had inserted its
\* row (the insert was rolled back), while the auction has a committed bid
C13_Witness ==
  /\ bids # {}
  /\ bidSeq > Cardinality(bids) +
        Cardinality({q \in BidProcs : bp[q].pc \in {"tx_update", "tx_publish", "tx_commit"}})

\* C14: no bid row is committed for a user who holds the current highest bid
\* of the auction (a bid of that user with amount = currentHighestBid), and so
\* no two bids of one auction that follow each other are by the same user.
C14_NoSelfOutbid ==
  /\ [][\A a \in AuctionIds : \A b \in BidsOf(a)' \ BidsOf(a) :
          ~ \E c \in BidsOf(a) :
               c.userId = b.userId /\ c.amount = auctions[a].currentHighestBid]_vars
  /\ [](\A a \in AuctionIds : \A b1, b2 \in BidsOf(a) :
          (/\ b1.timestamp < b2.timestamp
           /\ ~ \E b \in BidsOf(a) : b1.timestamp < b.timestamp /\ b.timestamp < b2.timestamp)
             => b1.userId # b2.userId)

\* C15: whatever the outcome of the downstream calls of placeBid (cache write,
\* history append, EventBus publish, pub/sub publish), a bid that passed the
\* Store validation goes on to be committed and answered with bidPlaced.
C15_DownstreamNeverInvalidates ==
  [][\A p \in BidProcs :
        (\E ok \in BOOLEAN : txDownstream(p, ok)) => bp'[p].pc = "tx_commit"]_vars

\* C16: when a Redis command of the rate-limit check fails, the placeBid
\* request is admitted to bid validation (and answered there) instead of being
\* rejected or left unanswered.
C16_RateCheckFailsOpen ==
  [][\A p \in RateProcs :
        (rateIncr(p, FALSE) \/ rateExpire(p, FALSE) \/ ratePenalty(p, FALSE))
           => rl'[p].pc = "admitted"]_vars

\* the number of messages of one type and addressee in a list of notifications
CountMsg(msgs, type, u) ==
  Cardinality({i \in 1 .. Len(msgs) : msgs[i].type = type /\ msgs[i].userId = u})

\* the notifications that endAuction caller e goes on to publish
Outcome(e) == OutcomeMessages(Head(ep[e].todo), ep[e].winnerId, ep[e].participants)

\* C18: the END transition of an auction with bids publishes exactly one
\* AUCTION_WON, addressed to the winner, exactly one AUCTION_LOST to every other
\* user with a bid on the auction, and nothing else; the END transition of an
\* auction without bids publishes exactly one AUCTION_ENDED_NO_BIDS (addressed
\* to no user) and nothing else.
C18_OutcomeNotifications ==
  [][\A e \in EndProcs :
        /\ endUpdate(e) =>
             LET a == Head(ep[e].todo)
                 P == {b.userId : b \in BidsOf(a)}
                 w == auctions'[a].winnerId
             IN IF P # {}
                  THEN /\ w \in P
                       /\ \A u \in Users :
                            /\ CountMsg(Outcome(e), "AUCTION_WON", u) = IF u = w THEN 1 ELSE 0
                            /\ CountMsg(Outcome(e), "AUCTION_LOST", u) =
                                  IF u \in P \ {w} THEN 1 ELSE 0
                       /\ Len(Outcome(e)) = Cardinality(P)
                  ELSE Outcome(e) =
                         <<[type |-> "AUCTION_ENDED_NO_BIDS", userId |-> NoUser, auctionId |-> a]>>
        /\ (endPublish(e) /\ mqUp) => notifications' = notifications \o Outcome(e)]_vars

\* C17: every user with a bid on an ENDED auction in the end receives an
\* AUCTION_WON or AUCTION_LOST userNotification at their socket, when the
\* consumer is scheduled fairly and the user keeps coming back online.
C17_ParticipantsNotified ==
  \A a \in AuctionIds : \A u \in Users :
     []<>(u \in connectedUsers) =>
        ((auctions[a].status = "ENDED" /\ \E b \in BidsOf(a) : b.userId = u)
            ~> (observed[u] \cap UserNotifications # {}))

\* C19: an auction that has become ENDED is followed by an auctionEnded
\* broadcast to its room.
C19_EndedIsBroadcast ==
  \A a \in AuctionIds :
     (auctions[a].status = "ENDED" /\ a \notin auctionEnded) ~> (a \in auctionEnded)

\* C20: when auctionEnded is emitted to the room of an ENDED auction, no newBid
\* of a bid that committed before the auction was ENDED is still to be emitted.
C20_EndedAfterNewBids ==
  [][\A a \in AuctionIds :
        (handleAuctionEnd(a) /\ auctions[a].status = "ENDED") =>
           ~ \E p \in BidProcs :
                bp[p].pc = "gw_emit" /\ bp[p].auctionId = a /\ bp[p].beforeEnd]_vars

C22_ExactlyOneReply ==
  [][\A p \in RateProcs : rateDone(p) => rl[p].pc \in {"admitted", "rate_limited"}]_vars

\* a maximum bid amount the deployment would configure below the largest
\* amount of the model (the code reads no such setting)
MaxBidAmount == MaxAmount - 1

\* an amount that may be stored: a finite number, > 0, not above the maximum
Storable(x) == x \in 1 .. MaxBidAmount

\* C23: an amount that is not a number, not finite, <= 0 or above the
\* configured maximum is refused and never stored: every bid row and every
\* currentHighestBid holds a finite amount in 1 .. maximum, and a message with
\* an amount outside that range leaves the Store as it was.
C23_OnlyValidAmountsStored ==
  /\ [](\A a \in AuctionIds :
          /\ Exists(a) => Storable(auctions[a].currentHighestBid)
          /\ \A b \in BidsOf(a) : Storable(b.amount))
  /\ [][\A p \in BidProcs :
          (/\ bp[p].pc \notin {"idle", "gw_emit"}
           /\ ~ Storable(bp[p].amount)
           /\ bp'[p] # bp[p]) => UNCHANGED <<auctions, bids>>]_vars

\* C24: the cached highest bid of an auction is written only after the
\* transaction of that bid has committed, and whenever a highest bid is cached
\* it is a committed bid row of that auction.
C24_CacheAfterCommit ==
  /\ [][\A a \in AuctionIds : highest'[a] # highest[a] =>
          \E b \in BidsOf(a) : b.id = highest'[a]]_vars
  /\ [](\A a \in AuctionIds : highest[a] # NoBid =>
          \E b \in BidsOf(a) : b.id = highest[a])

\* C25: a bid passes the validation of placeBid only while now < endTime, so
\* a bid never passes it at an instant at which the auction satisfies the
\* expiry condition of the sweep (ACTIVE and endTime <= now).
C25_NoBidAtExpiry ==
  [][\A p \in BidProcs : (txRead(p) /\ bp'[p].pc = "tx_find") =>
        /\ now < auctions[bp[p].auctionId].endTime
        /\ ~ Expired(auctions[bp[p].auctionId], now)]_vars

\* C26: a read never returns an ACTIVE auction whose endTime <= now: in every
\* state, for an auction that is ACTIVE with endTime <= now, the on-demand test
\* of getAuction and getActiveAuctions sends the read to endAuction.
C26_ReadsEndExpired ==
  \A a \in AuctionIds : Expired(auctions[a], now) => Overdue(auctions[a], now)

\* C27: counted from no rate counter, the first 5 requests of a window pass
\* the rate gate and go on to the validator, and the 6th and every later one
\* is answered bidError RATE_LIMIT_EXCEEDED without reaching it (in the steps
\* in which Redis answers the commands of the check).
C27_FirstFivePass ==
  [][\A p \in RateProcs :
        /\ (rateIncr(p, TRUE) /\ rateKey.count < RateLimit) =>
              rl'[p].pc \in {"admitted", "expire"}
        /\ rateExpire(p, TRUE) => rl'[p].pc = "admitted"
        /\ (rateIncr(p, TRUE) /\ rateKey.count >= RateLimit) =>
              rl'[p].pc \in {"rate_limited", "penalty"}
        /\ ratePenalty(p, TRUE) => rl'[p].pc = "rate_limited"]_vars

\* C27's case: five requests were admitted and the sixth has been refused
C27_Witness ==
  /\ Len(admitted) = RateLimit
  /\ rateKey.count = RateLimit + 1
  /\ \E p \in RateProcs : rl[p].pc = "rate_limited"

\* C28: a rate counter that exists carries an expiry, set by the request that
\* created it (or about to be set by that request, which is still at its
\* EXPIRE): at most 5 x window, and above the window only once the count has
\* exceeded 2 x limit; so a counter left alone is gone within 150 s.
C28_CounterExpires ==
  rateKey.count > 0 =>
     /\ rateKey.ttl = NoTtl => \E p \in RateProcs : rl[p].pc = "expire"
     /\ rateKey.ttl # NoTtl => rateKey.ttl \in 1 .. RateWindow * 5
     /\ rateKey.ttl > RateWindow => rateKey.count > RateLimit * 2

\* C29: the amount is normalized before the rate gate: the rate counter is
\* incremented only for a message whose amount the amount test accepts.
C29_NormalizeBeforeRateGate ==
  [][\A p \in RateProcs :
        checkRateLimit(p, TRUE) => ~ refused(coerce(gateMsg[p]))]_vars

\* C30: every committed bid has exactly one bid event in queue
\* 'bid-processing', and every bid event of the queue is the event of a
\* committed bid.
C30_OneEventPerCommittedBid ==
  /\ \A b \in bids :
        Cardinality({i \in 1 .. Len(bidProcessing) : bidProcessing[i] = b.id}) = 1
  /\ \A i \in 1 .. Len(bidProcessing) : \E b \in bids : b.id = bidProcessing[i]

\* C31: a userNotification addressed to user U arrives only at U's session:
\* no socket of another user receives it.
C31_NotificationOnlyToAddressee ==
  \A u \in Users : \A i \in 1 .. Len(received[u]) : received[u][i].userId = u

\* C32: at the session of its addressee at most one notification per key
\* (auctionId, recipient userId, kind) is delivered: a message whose key was
\* delivered before is discarded.
C32_OneDeliveryPerKey ==
  \A u \in Users : \A i, j \in 1 .. Len(received[u]) :
     (i # j /\ received[u][i].userId = u) => received[u][i] # received[u][j]

\* C33: a notification message is acknowledged only when it was delivered: in
\* the step that acks a userNotification message, the message arrives at the
\* session of its addressee (otherwise it stays in the queue for redelivery).
C33_AckOnlyAfterDelivery ==
  [][consumed' # consumed =>
        LET msg == notifications[consumed + 1]
        IN msg.type \in UserNotifications =>
              /\ msg.userId \in connectedUsers
              /\ received'[msg.userId] = Append(received[msg.userId], msg)]_vars

\* C34: every auction row has endTime > startTime and a startingBid > 0.
C34_ValidAuctionRows ==
  \A a \in AuctionIds : Exists(a) =>
     /\ auctions[a].endTime > auctions[a].startTime
     /\ auctions[a].startingBid > 0

\* C35: auctionEnded is emitted to the room of an auction only when the
\* Store holds that auction as ENDED; no message of a client brings it about
\* for an auction that is ACTIVE.
C35_AuctionEndedOnlyWhenEnded ==
  \A a \in auctionEnded : auctions[a].status = "ENDED"

\* C36: a socket whose handshake has no token or a token that is refused gets
\* error and is closed, and nothing is registered for it; and a message
\* handler changes the gateway's or the Store's state, or broadcasts, only
\* when the socket it runs for has a verified user.
C36_OnlyVerifiedSocketsAct ==
  [][\A s \in Sockets :
       /\ (sock[s].st = "free" /\ sock'[s].st # "free" /\ sock'[s].user = NoUser)
             => /\ sock'[s].st = "closed"
                /\ sock'[s].err
                /\ UNCHANGED <<connectedUsers, auctionRooms>>
       /\ (/\ \/ socketJoinTrack(s)
              \/ \E a \in AuctionIds :
                    \/ socketJoinAuction(s, a)
                    \/ socketAuctionEnd(s, a)
                    \/ \E amount \in Amounts : socketPlaceBid(s, a, amount)
           /\ <<hubVars, storeVars, rateVars>>' # <<hubVars, storeVars, rateVars>>)
             => sock[s].user \in Users]_vars

\* a refused socket is closed while another socket has had auctionEnded emitted
C36_Witness ==
  \E s, t \in Sockets :
     /\ sock[s].st = "closed" /\ sock[s].user = NoUser /\ sock[s].err
     /\ sock[t].st = "open" /\ sock[t].user \in Users
     /\ auctionEnded # {}

\* C37: a user is in connectedUsers exactly when one of the user's sockets is
\* connected, and in the Set of an auction's room exactly when one of the
\* user's connected sockets has joined that auction.
C37_RegistryMatchesLiveSockets ==
  \A u \in Users :
     /\ u \in connectedUsers <=> \E s \in Sockets : sock[s].st = "open" /\ sock[s].user = u
     /\ \A a \in AuctionIds :
           (a \in DOMAIN auctionRooms /\ u \in auctionRooms[a])
              <=> \E s \in Sockets : sock[s].st = "open" /\ sock[s].user = u /\ a \in sock[s].joined

\* C38: a sweep that fails on one auction of its query still goes on to the
\* other auctions of that query: it stops only when none is left.
C38_SweepGoesOnAfterFailure ==
  [][(ep[SweepProc].pc # "idle" /\ ep'[SweepProc].pc = "idle")
        => Tail(ep[SweepProc].todo) = <<>>]_vars

====
